---- MODULE Spec2Model ----
(***************************************************************************)
(* The data pipeline of the Portsmouth housing dashboard (src/app.py).     *)
(*                                                                         *)
(* The script runs top to bottom on every refresh: it loads the project    *)
(* sheet (CSV), derives the rental columns and the yearly rental table,    *)
(* computes the headline numbers, then rebuilds the derived columns and    *)
(* the yearly table for the development section, and places the map       *)
(* markers.  A step that raises ends the run.                              *)
(*                                                                         *)
(* The sheet is a sequence of rows, a CSV cell is its text, a sequence of   *)
(* characters (<<>> is an empty cell).  A data frame maps each column name *)
(* to the sequence of the column's values, one per row.  A value is a      *)
(* tagged record:                                                          *)
(*    "nan"    a missing value                                             *)
(*    "num"    a number (v)                                                *)
(*    "str"    a Python string (v, its characters)                         *)
(*    "tenths" a number with one decimal, v counts tenths                  *)
(*    "inf"    a float infinity, v its sign                                *)
(*    "frac"   the quotient v[1] / v[2] before rounding                    *)
(* Cell texts are empty, integer numerals or words; decimal numerals are   *)
(* outside the inputs drawn here.  Non-numeric text in a unit-count column *)
(* is drawn only for columns whose partner in the column arithmetic is     *)
(* numeric, where the outcome (a TypeError) does not depend on the pandas  *)
(* version.                                                                *)
(***************************************************************************)
EXTENDS Integers, Sequences, FiniteSets, TLC

VARIABLES sheet, pc, err, df, yearly_complete, planned_rental,
          rental_deficit, current, markers

vars == <<sheet, pc, err, df, yearly_complete, planned_rental,
          rental_deficit, current, markers>>

\* ---------------------------------------------------------------- constants
RENTAL_GOAL == 2897
TARGET_YEAR == 2030

\* ------------------------------------------------------------------- bounds
MaxRows == 2

\* ------------------------------------------------------------------- values
NaN == [k |-> "nan", v |-> 0]
Num(n) == [k |-> "num", v |-> n]
Str(t) == [k |-> "str", v |-> t]
Tenths(n) == [k |-> "tenths", v |-> n]
\* sign is 1 or -1
Inf(sign) == [k |-> "inf", v |-> sign]

\* pd.isna
isna(x) == x.k = "nan"

SourceColumns == {"Occupancy", "Market Rate Rentals", "Affordable Rentals",
                  "Market Rate Owner", "Affordable Owner", "Total units",
                  "Latitude", "Longitude"}

\* ------------------------------------------------------------ parsing cells
DigitChars == <<"0", "1", "2", "3", "4", "5", "6", "7", "8", "9">>

IsDigit(c) == \E d \in 1..10 : DigitChars[d] = c

DigitVal(c) == (CHOOSE d \in 1..10 : DigitChars[d] = c) - 1

RECURSIVE DigitsVal(_)
DigitsVal(t) ==
    IF t = <<>> THEN 0
    ELSE 10 * DigitsVal(SubSeq(t, 1, Len(t) - 1)) + DigitVal(t[Len(t)])

\* The text is an integer numeral: an optional minus sign, then digits.
IsNumeral(t) ==
    LET body == IF t # <<>> /\ t[1] = "-" THEN Tail(t) ELSE t
    IN  body # <<>> /\ \A i \in 1..Len(body) : IsDigit(body[i])

NumeralVal(t) ==
    IF t[1] = "-" THEN 0 - DigitsVal(Tail(t)) ELSE DigitsVal(t)

\* pd.read_csv decides a column's type from all of its cells: a column whose
\* non-empty cells are all numerals is numeric and its empty cells are NaN;
\* otherwise the column holds objects, its non-empty cells stay strings.
IsNumericColumn(csv, c) ==
    \A i \in 1..Len(csv) : csv[i][c] = <<>> \/ IsNumeral(csv[i][c])

ReadCell(csv, i, c) ==
    IF csv[i][c] = <<>> THEN NaN
    ELSE IF IsNumericColumn(csv, c) THEN Num(NumeralVal(csv[i][c]))
    ELSE Str(csv[i][c])

read_csv(csv) == [c \in SourceColumns |-> [i \in 1..Len(csv) |-> ReadCell(csv, i, c)]]

\* DataFrame.fillna(0)
FillNaValue(x) == IF isna(x) THEN Num(0) ELSE x

fillna(frame) == [c \in DOMAIN frame |-> [i \in 1..Len(frame[c]) |-> FillNaValue(frame[c][i])]]

\* pd.to_numeric(..., errors='coerce') of one value
to_numeric(x) ==
    IF x.k = "str"
    THEN (IF IsNumeral(x.v) THEN Num(NumeralVal(x.v)) ELSE NaN)
    ELSE x

\* ------------------------------------------------------- column arithmetic
\* A column holds objects when pd.read_csv left strings in it.
IsObject(col) == \E i \in 1..Len(col) : col[i].k = "str"

\* Python's a + b on two elements: numbers add, strings concatenate, a string
\* and a number raise TypeError.
AddErr(a, b) == IF (a.k = "str") # (b.k = "str") THEN "TypeError" ELSE ""

Add(a, b) == IF a.k = "str" THEN Str(a.v \o b.v) ELSE Num(a.v + b.v)

\* a / b on two elements.  Numeric columns divide as floats: x/0 is inf (or
\* NaN for 0/0) and nothing is raised.  Elements of an object column divide
\* as Python objects: a string raises TypeError, a zero divisor raises
\* ZeroDivisionError.
DivErr(a, b, object) ==
    IF a.k = "str" \/ b.k = "str" THEN "TypeError"
    ELSE IF object /\ b.v = 0 THEN "ZeroDivisionError"
    ELSE ""

Div(a, b) ==
    IF b.v = 0
    THEN (IF a.v = 0 THEN NaN ELSE Inf(IF a.v > 0 THEN 1 ELSE -1))
    ELSE [k |-> "frac", v |-> <<a.v, b.v>>]

Times(x, n) == IF x.k = "frac" THEN [k |-> "frac", v |-> <<x.v[1] * n, x.v[2]>>] ELSE x

\* The nearest integer to n/d (d > 0), a tie going to the even one.
RoundHalfEven(n, d) ==
    LET q == n \div d
        r == n % d
    IN  IF 2 * r < d THEN q
        ELSE IF 2 * r > d THEN q + 1
        ELSE IF q % 2 = 0 THEN q ELSE q + 1

\* Series.round(1): one decimal, kept as a count of tenths.
Round1(x) ==
    IF x.k = "frac" THEN Tenths(RoundHalfEven(x.v[1] * 10, x.v[2]))
    ELSE IF x.k = "num" THEN Tenths(x.v * 10)
    ELSE x

\* The error of the first row whose element operation raises ("" if none).
FirstErr(rowErr) ==
    LET bad == {i \in 1..Len(rowErr) : rowErr[i] # ""}
    IN  IF bad = {} THEN ""
        ELSE rowErr[CHOOSE i \in bad : \A j \in bad : i <= j]

ColAddErr(a, b) == FirstErr([i \in 1..Len(a) |-> AddErr(a[i], b[i])])

ColDivErr(a, b) ==
    FirstErr([i \in 1..Len(a) |-> DivErr(a[i], b[i], IsObject(a) \/ IsObject(b))])

ColAdd(a, b) == [i \in 1..Len(a) |-> Add(a[i], b[i])]

\* df[name] = col: the column is added, or replaced when it exists.
Assign(frame, name, col) == (name :> col) @@ frame

\* --------------------------------------------------- group, merge, cumulate
RECURSIVE SumTo(_, _)
SumTo(col, n) == IF n = 0 THEN 0 ELSE SumTo(col, n - 1) + col[n].v

\* Series.sum() of a numeric column
Sum(col) == SumTo(col, Len(col))

RECURSIVE Ascending(_)
Ascending(S) ==
    IF S = {} THEN <<>>
    ELSE LET m == CHOOSE x \in S : \A y \in S : x <= y
         IN  <<m>> \o Ascending(S \ {m})

\* frame[mask]: the rows at the indices of mask, in their order.
Rows(frame, mask) ==
    LET idx == Ascending(mask)
    IN  [c \in DOMAIN frame |-> [j \in 1..Len(idx) |-> frame[c][idx[j]]]]

\* df[~pd.isna(df['Move-in Year'])]
Valid(frame) ==
    Rows(frame, {i \in 1..Len(frame["Move-in Year"]) : ~isna(frame["Move-in Year"][i])})

\* groupby('Move-in Year').agg({c: 'sum' ...}).reset_index(): one row per
\* distinct year, in ascending order of the year.
GroupSum(frame, cols) ==
    LET year == frame["Move-in Year"]
        keys == Ascending({year[i].v : i \in 1..Len(year)})
        group(y) == Rows(frame, {i \in 1..Len(year) : year[i].v = y})
    IN  [c \in cols \cup {"Move-in Year"} |->
            [j \in 1..Len(keys) |->
                IF c = "Move-in Year" THEN Num(keys[j]) ELSE Num(Sum(group(keys[j])[c]))]]

\* Series.min(): NaN for an empty series
SeriesMin(col) ==
    IF col = <<>> THEN NaN
    ELSE col[CHOOSE i \in 1..Len(col) : \A j \in 1..Len(col) : col[i].v <= col[j].v]

\* list(range(a, b))
Range(a, b) == [i \in 1..(IF b > a THEN b - a ELSE 0) |-> a + i - 1]

\* AllYears with the "+ 1" forgotten: the range stops before the target year.
AllYearsExclusive(yearly_data) ==
    Range(SeriesMin(yearly_data["Move-in Year"]).v, TARGET_YEAR)

\* list(range(int(yearly_data['Move-in Year'].min()), TARGET_YEAR + 1))
AllYears(yearly_data) == Range(SeriesMin(yearly_data["Move-in Year"]).v, TARGET_YEAR + 1)

RECURSIVE Flatten(_, _, _)
Flatten(f, lo, hi) ==
    IF lo > hi THEN <<>>
    ELSE IF lo = hi THEN f[lo]
    ELSE LET mid == (lo + hi) \div 2
         IN  Flatten(f, lo, mid) \o Flatten(f, mid + 1, hi)

\* The rows of a left merge of the years with right on 'Move-in Year', as
\* pairs <<year, index in right>>: the years keep their order; a year that
\* matches no row of right gives one pair with index 0, a year that matches
\* several gives them all.
MergePairs(years, right) ==
    LET key == right["Move-in Year"]
        joined(y) == LET m == Ascending({j \in 1..Len(key) : key[j].v = y})
                     IN  IF m = <<>> THEN <<<<y, 0>>>>
                         ELSE [j \in 1..Len(m) |-> <<y, m[j]>>]
    IN  Flatten([i \in 1..Len(years) |-> joined(years[i])], 1, Len(years))

\* pd.DataFrame({'Move-in Year': years}).merge(right, on='Move-in Year',
\* how='left'): an unmatched year has NaN in right's columns.
MergeLeft(years, right) ==
    LET pairs == MergePairs(years, right)
    IN  [c \in DOMAIN right |->
            [p \in 1..Len(pairs) |->
                IF c = "Move-in Year" THEN Num(pairs[p][1])
                ELSE IF pairs[p][2] = 0 THEN NaN
                ELSE right[c][pairs[p][2]]]]

\* The running sums of s[lo..hi].
RECURSIVE Prefix(_, _, _)
Prefix(s, lo, hi) ==
    IF lo > hi THEN <<>>
    ELSE IF lo = hi THEN <<s[lo].v>>
    ELSE LET mid == (lo + hi) \div 2
             L == Prefix(s, lo, mid)
             R == Prefix(s, mid + 1, hi)
         IN  L \o [i \in 1..Len(R) |-> R[i] + L[Len(L)]]

\* cumsum that keeps the yearly values instead of accumulating them.
cumsumNotAccumulated(col) == [i \in 1..Len(col) |-> Num(col[i].v)]

\* Series.cumsum()
cumsum(col) ==
    LET s == Prefix(col, 1, Len(col))
    IN  [i \in 1..Len(s) |-> Num(s[i])]

\* max(0, a)
Max0(a) == IF a > 0 THEN a ELSE 0

\* ------------------------------------------------------------------ the run
RentalColumns == {"Rental Units", "Market Rentals", "Non-Market Rentals"}

UnitColumns == {"Rental Units", "Owner Units", "Total units", "Affordable Units",
                "Market Rate Units"}

NoFrame == [c \in {} |-> <<>>]

NoMetrics == [rental |-> 0, owner |-> 0, affordable |-> 0, market_rate |-> 0]

\* An uncaught exception ends the script.
Raise(type, line) ==
    /\ pc' = "error"
    /\ err' = [type |-> type, line |-> line]

\* load_data(CSV_URL).fillna(0)
LoadData ==
    /\ pc = "start"
    /\ df' = fillna(read_csv(sheet))
    /\ pc' = "loaded"
    /\ UNCHANGED <<sheet, err, yearly_complete, planned_rental, rental_deficit,
                   current, markers>>

\* pd.read_csv raises when the sheet cannot be fetched.
FetchFails ==
    /\ pc = "start"
    /\ Raise("FetchError", 26)
    /\ UNCHANGED <<sheet, df, yearly_complete, planned_rental, rental_deficit,
                   current, markers>>

\* df['Move-in Year'] = pd.to_numeric(df['Occupancy'], errors='coerce')
WithMoveInYear(frame) ==
    Assign(frame, "Move-in Year",
           [i \in 1..Len(frame["Occupancy"]) |-> to_numeric(frame["Occupancy"][i])])

\* Lines 37-42: the rental columns and the move-in year.
RentalFrame(frame) ==
    LET f1 == Assign(frame, "Rental Units",
                     ColAdd(frame["Market Rate Rentals"], frame["Affordable Rentals"]))
        f2 == Assign(f1, "Market Rentals", f1["Market Rate Rentals"])
        f3 == Assign(f2, "Non-Market Rentals", f2["Affordable Rentals"])
    IN  WithMoveInYear(f3)

\* Lines 56-62: the complete year index merged with the yearly sums, and the
\* running sum of the rental units.
RentalYearly(yearly_data) ==
    LET merged == fillna(MergeLeft(AllYears(yearly_data), yearly_data))
    IN  Assign(merged, "Cumulative Rentals", cumsum(merged["Rental Units"]))

\* int(df_valid['Market Rate Rentals'].sum()) + int(df_valid['Affordable Rentals'].sum())
PlannedRental(df_valid) ==
    Sum(df_valid["Market Rate Rentals"]) + Sum(df_valid["Affordable Rentals"])

\* Lines 37-69, then the metrics row and the rental chart (lines 81-157),
\* which only read what these lines computed.
RentalPipeline ==
    /\ pc = "loaded"
    /\ LET e37 == ColAddErr(df["Market Rate Rentals"], df["Affordable Rentals"])
           frame == RentalFrame(df)
           df_valid == Valid(frame)
           yearly_data == GroupSum(df_valid, RentalColumns)
       IN  IF e37 # ""
           THEN /\ Raise(e37, 37)
                /\ UNCHANGED <<df, yearly_complete, planned_rental, rental_deficit>>
           ELSE IF isna(SeriesMin(yearly_data["Move-in Year"]))
           THEN \* int(nan): the minimum of no years is NaN
                /\ Raise("ValueError", 57)
                /\ df' = frame
                /\ UNCHANGED <<yearly_complete, planned_rental, rental_deficit>>
           ELSE /\ df' = frame
                /\ yearly_complete' = RentalYearly(yearly_data)
                /\ planned_rental' = PlannedRental(df_valid)
                /\ rental_deficit' = Max0(RENTAL_GOAL - PlannedRental(df_valid))
                /\ pc' = "rental"
                /\ UNCHANGED err
    /\ UNCHANGED <<sheet, current, markers>>

\* AffordabilityRatio with the operands of the division swapped.
AffordabilityRatioSwapped(affordable, total) ==
    Round1(FillNaValue(Times(Div(total, affordable), 100)))

\* (df["Affordable Units"] / df["Total units"] * 100).fillna(0).round(1)
AffordabilityRatio(affordable, total) ==
    Round1(FillNaValue(Times(Div(affordable, total), 100)))

\* Lines 165-176: the derived columns of the development section.
DevelopmentFrame(frame) ==
    LET f1 == Assign(frame, "Rental Units",
                     ColAdd(frame["Market Rate Rentals"], frame["Affordable Rentals"]))
        f2 == Assign(f1, "Owner Units",
                     ColAdd(f1["Market Rate Owner"], f1["Affordable Owner"]))
        f3 == Assign(f2, "Affordable Units",
                     ColAdd(f2["Affordable Rentals"], f2["Affordable Owner"]))
        f4 == Assign(f3, "Market Rate Units",
                     ColAdd(f3["Market Rate Rentals"], f3["Market Rate Owner"]))
        f5 == Assign(f4, "Affordability Ratio",
                     [i \in 1..Len(f4["Total units"]) |->
                         AffordabilityRatio(f4["Affordable Units"][i], f4["Total units"][i])])
    IN  WithMoveInYear(f5)

\* The first of lines 165-171 to raise, as <<error, line>> (<<"", 0>> if none).
DevelopmentErr(frame) ==
    LET e165 == ColAddErr(frame["Market Rate Rentals"], frame["Affordable Rentals"])
        e166 == ColAddErr(frame["Market Rate Owner"], frame["Affordable Owner"])
        e169 == ColAddErr(frame["Affordable Rentals"], frame["Affordable Owner"])
        e170 == ColAddErr(frame["Market Rate Rentals"], frame["Market Rate Owner"])
        e171 == ColDivErr(ColAdd(frame["Affordable Rentals"], frame["Affordable Owner"]),
                          frame["Total units"])
    IN  IF e165 # "" THEN <<e165, 165>>
        ELSE IF e166 # "" THEN <<e166, 166>>
        ELSE IF e169 # "" THEN <<e169, 169>>
        ELSE IF e170 # "" THEN <<e170, 170>>
        ELSE IF e171 # "" THEN <<e171, 171>>
        ELSE <<"", 0>>

\* Lines 190-202: the complete year index merged with the yearly sums, and the
\* five running sums.
DevelopmentYearly(yearly_data) ==
    LET merged == fillna(MergeLeft(AllYears(yearly_data), yearly_data))
        c1 == Assign(merged, "Cumulative Rental", cumsum(merged["Rental Units"]))
        c2 == Assign(c1, "Cumulative Owner", cumsum(c1["Owner Units"]))
        c3 == Assign(c2, "Cumulative Total", cumsum(c2["Total units"]))
        c4 == Assign(c3, "Cumulative Affordable", cumsum(c3["Affordable Units"]))
    IN  Assign(c4, "Cumulative Market Rate", cumsum(c4["Market Rate Units"]))

\* yearly_complete[c].iloc[-1] if not yearly_complete.empty else 0
Last(frame, c) == IF frame[c] = <<>> THEN 0 ELSE frame[c][Len(frame[c])].v

\* Lines 165-208.
DevelopmentPipeline ==
    /\ pc = "rental"
    /\ LET e == DevelopmentErr(df)
           frame == DevelopmentFrame(df)
           yearly_data == GroupSum(Valid(frame), UnitColumns)
       IN  IF e[1] # ""
           THEN /\ Raise(e[1], e[2])
                /\ UNCHANGED <<df, yearly_complete, current>>
           ELSE IF isna(SeriesMin(yearly_data["Move-in Year"]))
           THEN /\ Raise("ValueError", 191)
                /\ df' = frame
                /\ UNCHANGED <<yearly_complete, current>>
           ELSE /\ df' = frame
                /\ yearly_complete' = DevelopmentYearly(yearly_data)
                /\ current' = [rental |-> Last(yearly_complete', "Cumulative Rental"),
                               owner |-> Last(yearly_complete', "Cumulative Owner"),
                               affordable |-> Last(yearly_complete', "Cumulative Affordable"),
                               market_rate |-> Last(yearly_complete', "Cumulative Market Rate")]
                /\ pc' = "development"
                /\ UNCHANGED err
    /\ UNCHANGED <<sheet, planned_rental, rental_deficit, markers>>

\* get_marker_color
get_marker_color(ratio) ==
    IF (ratio.k = "tenths" /\ ratio.v > 0) \/ (ratio.k = "inf" /\ ratio.v > 0)
    THEN "orange" ELSE "blue"

\* One turn of the marker loop: no marker for a row whose latitude or
\* longitude is NaN, else one at [Latitude, Longitude].
MarkerOf(frame, i) ==
    IF isna(frame["Latitude"][i]) \/ isna(frame["Longitude"][i])
    THEN <<>>
    ELSE <<[row |-> i,
            location |-> <<frame["Latitude"][i].v, frame["Longitude"][i].v>>,
            color |-> get_marker_color(frame["Affordability Ratio"][i])]>>

\* Lines 244-299: for _, row in df.iterrows()
AddMarkers ==
    /\ pc = "development"
    /\ markers' = Flatten([i \in 1..Len(df["Latitude"]) |-> MarkerOf(df, i)],
                          1, Len(df["Latitude"]))
    /\ pc' = "done"
    /\ UNCHANGED <<sheet, err, df, yearly_complete, planned_rental, rental_deficit,
                   current>>

Next == LoadData \/ FetchFails \/ RentalPipeline \/ DevelopmentPipeline \/ AddMarkers

\* ------------------------------------------------------------------- inputs
\* The text of a number in the sheet's CSV export.
RECURSIVE Digits(_)
Digits(n) == IF n < 10 THEN <<DigitChars[n + 1]>>
             ELSE Append(Digits(n \div 10), DigitChars[(n % 10) + 1])

Numeral(n) == IF n < 0 THEN <<"-">> \o Digits(0 - n) ELSE Digits(n)

Empty == <<>>

TBD == <<"T", "B", "D">>

SheetRow(occ, mrr, ar, mro, ao, total, lat, lon) ==
    [c \in SourceColumns |->
        CASE c = "Occupancy" -> occ
          [] c = "Market Rate Rentals" -> mrr
          [] c = "Affordable Rentals" -> ar
          [] c = "Market Rate Owner" -> mro
          [] c = "Affordable Owner" -> ao
          [] c = "Total units" -> total
          [] c = "Latitude" -> lat
          [] c = "Longitude" -> lon]

Sheets(rows) == UNION {[1..n -> rows] : n \in 0..MaxRows}

\* Occupancy cells that are filled in: a word, and the years around the
\* target year.
OccupancyCells ==
    {TBD, Numeral(TARGET_YEAR - 1), Numeral(TARGET_YEAR), Numeral(TARGET_YEAR + 1)}

\* A project without counts, a rental project and an ownership project
\* (market-rate rentals, affordable rentals, market-rate owner, affordable
\* owner, total).
NoCounts == <<Empty, Empty, Empty, Empty, Empty>>

RentalProject == <<Numeral(2), Numeral(1), Empty, Empty, Numeral(3)>>

OwnerProject == <<Empty, Empty, Numeral(1), Numeral(1), Numeral(2)>>

\* A row of the sheet with an occupancy cell, the five unit counts of a
\* project and a location.
ProjectRow(occ, u) ==
    SheetRow(occ, u[1], u[2], u[3], u[4], u[5], Numeral(43), Numeral(-70))

\* A rental project under every occupancy cell, an ownership project and a
\* project without counts that open before the target year ends, and a rental
\* project whose occupancy cell is empty.
YearRows ==
    {ProjectRow(occ, RentalProject) : occ \in OccupancyCells}
    \cup
    {ProjectRow(Numeral(TARGET_YEAR - 1), OwnerProject),
     ProjectRow(Numeral(TARGET_YEAR), NoCounts),
     ProjectRow(Empty, RentalProject)}

\* Rows that differ in the unit counts, and two rows with a word in a
\* unit-count column.
UnitRows ==
    {SheetRow(Numeral(TARGET_YEAR), Empty, ar, Empty, ao, total, Numeral(43), Numeral(-70)) :
        ar \in {Empty, Numeral(1), Numeral(2)},
        ao \in {Numeral(0), Numeral(1)},
        total \in {Empty, Numeral(1), Numeral(3)}}
    \cup
    {SheetRow(Numeral(TARGET_YEAR), TBD, Numeral(1), Empty, Empty, Numeral(1),
              Numeral(43), Numeral(-70)),
     SheetRow(Numeral(TARGET_YEAR), Numeral(1), Numeral(1), Empty, Empty, TBD,
              Numeral(43), Numeral(-70))}

\* Rows that differ in the coordinates.
MapRows ==
    {SheetRow(occ, Numeral(1), ar, Empty, Empty, Numeral(2), lat, lon) :
        occ \in {Numeral(TARGET_YEAR), TBD},
        ar \in {Empty, Numeral(1)},
        lat \in {Empty, Numeral(43)},
        lon \in {Empty, Numeral(-70)}}

\* Before the script runs: the sheet holds some rows, nothing is computed.
InitOf(rows) ==
    /\ sheet \in Sheets(rows)
    /\ pc = "start"
    /\ err = [type |-> "", line |-> 0]
    /\ df = NoFrame
    /\ yearly_complete = NoFrame
    /\ planned_rental = 0
    /\ rental_deficit = 0
    /\ current = NoMetrics
    /\ markers = <<>>

Init == InitOf(YearRows)

InitUnits == InitOf(UnitRows)

InitMap == InitOf(MapRows)

Spec == Init /\ [][Next]_vars

SpecUnits == InitUnits /\ [][Next]_vars

SpecMap == InitMap /\ [][Next]_vars

\* ------------------------------------------------------------------- claims
\* The yearly table of the current section is built.
Built == pc \in {"rental", "development", "done"}

NRows == Len(sheet)

\* The rows whose move-in year parsed (the rows of df_valid).
ValidRows == {i \in 1..NRows : ~isna(df["Move-in Year"][i])}

MinParsedYear ==
    LET years == {df["Move-in Year"][i].v : i \in ValidRows}
    IN  CHOOSE y \in years : \A z \in years : y <= z

SumColumns == IF pc = "rental" THEN RentalColumns ELSE UnitColumns

CumulativeColumns ==
    IF pc = "rental" THEN {"Cumulative Rentals"}
    ELSE {"Cumulative Rental", "Cumulative Owner", "Cumulative Total",
          "Cumulative Affordable", "Cumulative Market Rate"}

UnitCountColumns == {"Market Rate Rentals", "Affordable Rentals", "Market Rate Owner",
                     "Affordable Owner", "Total units"}

NumeralRows == {i \in 1..NRows : IsNumeral(sheet[i]["Occupancy"])}

\* C2: a record whose occupancy cell is empty or is text that is no number is
\* excluded from the yearly table: every year's rental units are the sum over
\* the records whose occupancy cell holds that year, and the first year of
\* the table is the least year held by an occupancy cell.
C2_UnparsedExcluded ==
    pc = "rental" =>
        LET year == yearly_complete["Move-in Year"]
            cellYear(i) == NumeralVal(sheet[i]["Occupancy"])
        IN  /\ \A p \in 1..Len(year) :
                   yearly_complete["Rental Units"][p].v =
                       Sum(Rows(df, {i \in NumeralRows : cellYear(i) = year[p].v})["Rental Units"])
            /\ Len(year) > 0 =>
                   /\ NumeralRows # {}
                   /\ \A i \in NumeralRows : year[1].v <= cellYear(i)

\* C3: when the sheet has records and no occupancy cell holds a number, the
\* run does not raise (it ends with an empty yearly table).
C3_NoParseableYearNoError ==
    (/\ NRows > 0
     /\ \A i \in 1..NRows : sheet[i]["Occupancy"] # Empty /\ ~IsNumeral(sheet[i]["Occupancy"]))
        => (pc = "error" => err.type = "FetchError")

\* C8: when the minimum parsed move-in year is past the target year, the
\* yearly table has exactly one row.
C8_PastTargetSingleRow ==
    (Built /\ MinParsedYear > TARGET_YEAR) => Len(yearly_complete["Move-in Year"]) = 1

\* C9: the rows of the yearly table are in ascending order of the year and
\* every cumulative column is non-decreasing along them.
C9_CumulativeNonDecreasing ==
    Built =>
        LET year == yearly_complete["Move-in Year"]
            cumulative == CumulativeColumns
        IN  \A p \in 1..(Len(year) - 1) :
                /\ year[p].v < year[p + 1].v
                /\ \A c \in cumulative : yearly_complete[c][p].v <= yearly_complete[c][p + 1].v

\* A table of the development section in which a cumulative total grows from
\* one year with projects to the next.
C9_Witness ==
    /\ pc = "done"
    /\ \E p \in 1..(Len(yearly_complete["Move-in Year"]) - 1) :
           /\ yearly_complete["Cumulative Total"][p].v > 0
           /\ yearly_complete["Cumulative Total"][p].v
                  < yearly_complete["Cumulative Total"][p + 1].v
           /\ yearly_complete["Cumulative Affordable"][p].v
                  < yearly_complete["Cumulative Affordable"][p + 1].v

\* C10: the headline planned rental total equals the Cumulative Rentals of
\* the last row of the yearly table of the rental chart (stated here for the
\* sheets whose occupancy cells all hold a year, and a table that has rows).
C10_PlannedIsLastCumulative ==
    (/\ pc = "rental"
     /\ NumeralRows = 1..NRows
     /\ Len(yearly_complete["Move-in Year"]) > 0)
        => planned_rental = Last(yearly_complete, "Cumulative Rentals")

\* C4: a record whose total units is 0 has an affordability ratio of exactly 0.
C4_ZeroTotalZeroRatio ==
    pc \in {"development", "done"} =>
        \A i \in 1..NRows :
            df["Total units"][i].v = 0 => df["Affordability Ratio"][i] = Tenths(0)

\* The record's unit counts are numbers, none negative, and its total is
\* positive.
CountsNonNegative(i) ==
    /\ \A c \in UnitCountColumns : df[c][i].k = "num" /\ df[c][i].v >= 0
    /\ df["Total units"][i].v > 0

InPercentRange(x) == x.k = "tenths" /\ 0 <= x.v /\ x.v <= 1000

\* C5 as stated: every record with total units > 0 and non-negative counts
\* has an affordability ratio in [0, 100].
C5_RatioInRange ==
    pc \in {"development", "done"} =>
        \A i \in 1..NRows :
            CountsNonNegative(i) => InPercentRange(df["Affordability Ratio"][i])

\* C5 amended: every record with total units > 0, non-negative counts and
\* affordable rentals + affordable owner <= total units has an affordability
\* ratio in [0, 100].
C5_RatioInRangeWhenConsistent ==
    pc \in {"development", "done"} =>
        \A i \in 1..NRows :
            (/\ CountsNonNegative(i)
             /\ df["Affordable Rentals"][i].v + df["Affordable Owner"][i].v
                    <= df["Total units"][i].v)
                => InPercentRange(df["Affordability Ratio"][i])

\* A record with 1 affordable unit of 3: its ratio, 33.3, is strictly inside
\* the interval.
C5_Witness ==
    /\ pc = "done"
    /\ \E i \in 1..NRows :
           /\ CountsNonNegative(i)
           /\ df["Affordable Units"][i] = Num(1)
           /\ df["Total units"][i] = Num(3)
           /\ df["Affordability Ratio"][i] = Tenths(333)

\* C6: a unit-count cell that is empty or holds text that is no number does
\* not make the run raise: only a failed fetch is an error.
C6_BadUnitCellNoError ==
    (\E i \in 1..NRows : \E c \in UnitCountColumns : ~IsNumeral(sheet[i][c]))
        => (pc = "error" => err.type = "FetchError")

\* C7: every marker belongs to a record that has both coordinates in the
\* sheet (a record without a latitude or a longitude gets no marker).
C7_MarkersHaveCoordinates ==
    pc = "done" =>
        \A j \in 1..Len(markers) :
            /\ sheet[markers[j].row]["Latitude"] # Empty
            /\ sheet[markers[j].row]["Longitude"] # Empty
====
